---- MODULE Spec2Model ----
(***************************************************************************)
(* Corrum: proposal lifecycle state machine (src/core/state-machine.ts),   *)
(* vote-consensus evaluator (src/core/consensus.ts), arbiter selection     *)
(* (src/core/events.ts) and the CLI commands that drive a stored proposal  *)
(* (commands/propose.ts, add-review, next.ts, complete.ts).                *)
(***************************************************************************)
EXTENDS Integers, Sequences, FiniteSets, TLC

VARIABLES
  value,        \* machine: snapshot.value of the proposal actor
  context,      \* machine: snapshot.context (ProposalContext)
  lastEvent,    \* machine: the event sent last, the snapshot it was sent to
                \* and what the send reported
  evalInput,    \* evaluator: arguments of the evaluateConsensus call
  evalResult,   \* evaluator: <<ConsensusResult>> once the call has returned
  config,       \* commands: the loaded CorrumConfig (roles, rules, agents)
  proposal,     \* commands: the proposals row of the store
  reviews,      \* commands: the reviews rows of the store, in recorded_at order
  decision,     \* commands: the decisions row of the store
  run,          \* commands: position and local votes of the run workflow
  out,          \* commands: what the last command reported
  stale,        \* commands: how many stored reviews predate the latest revision
  arbInput,     \* arbiter selection: arguments of the selectArbiter call
  arbResult,    \* arbiter selection: <<agent>> once the call has returned
  actors,       \* several proposals: the snapshot of each proposal's actor
  delivered,    \* several proposals: the proposal and event of the last send
  loadInput,    \* configuration: the [roles] table of the config file
  loadResult,   \* configuration: <<outcome>> once loadConfig has returned
  matchInput,   \* expertise: arguments of matchExpertiseAndAssignAgents
  matchResult,  \* expertise: <<result>> once the call has returned
  trace,        \* event sequences: the events sent to a fresh actor so far
  pc            \* concurrent commands: position and locals of each process

machineVars == <<value, context, lastEvent>>
evalVars    == <<evalInput, evalResult>>
storeVars   == <<proposal, reviews, decision>>
cmdVars     == <<config, proposal, reviews, decision, run, out, stale>>
arbVars     == <<arbInput, arbResult>>
poolVars    == <<actors, delivered>>
loadVars    == <<loadInput, loadResult>>
matchVars   == <<matchInput, matchResult>>
traceVars   == <<trace>>
raceVars    == <<pc>>
vars        == <<value, context, lastEvent, evalInput, evalResult,
                 config, proposal, reviews, decision, run, out, stale,
                 arbInput, arbResult, actors, delivered,
                 loadInput, loadResult, matchInput, matchResult, trace, pc>>

----------------------------------------------------------------------------
(* Bounds *)

MaxMaxIterations == 2    \* maxIterations ranges over 1..MaxMaxIterations
MaxSnapshotVotes == 1    \* votes already held by a restored snapshot
MaxEvalVotes == 3        \* length of a review list handed to the evaluator
MaxArbiters == 2         \* length of config.roles.arbiters
MaxArbitrations == 1     \* recorded prior arbitrations per agent
MaxReviews == 2          \* reviews rows stored for the proposal
MaxDefaultReviewers == 2 \* length of a configured default_reviewers list

\* context.maxIterations of a freshly created actor
DefaultMaxIterations == 2

----------------------------------------------------------------------------
(* Types *)

AgentName == {"claude", "codex", "gemini"}
Vote == {"APPROVE", "REJECT", "REVISE"}
ProposalStatus == {"draft", "pending_review", "revision", "disputed",
                   "escalated", "approved", "rejected", "implemented"}
ConsensusMode == {"majority", "unanimous"}
ModelFamily == {"anthropic", "openai", "google"}
Null == "null"

EventType == {"CREATE", "REVIEW_RECEIVED", "REVISED", "ARBITER_DECISION",
              "HUMAN_DECISION", "IMPLEMENTATION_COMPLETE"}

\* One record shape for all six event variants; unused fields are Null/FALSE.
ProposalEvent(type, agent, vote, approved) ==
  [type |-> type, agent |-> agent, vote |-> vote, approved |-> approved]

ProposalContext(iterations, maxIterations, votes, arbiter, requireUnanimous) ==
  [iterations |-> iterations, maxIterations |-> maxIterations, votes |-> votes,
   arbiter |-> arbiter, requireUnanimous |-> requireUnanimous]

\* Sequences over S of length at most n.
SeqUpTo(S, n) == UNION {[1..k -> S] : k \in 0..n}

CountVote(vs, v) == Cardinality({i \in 1..Len(vs) : vs[i].vote = v})

----------------------------------------------------------------------------
(* ConsensusEvaluator: evaluateConsensus(reviews, config, options) *)

\* override > config.rules.consensusMode > legacy requireUnanimous
effectiveMode(override, configMode, requireUnanimous) ==
  IF override # Null THEN override
  ELSE IF configMode # Null THEN configMode
  ELSE IF requireUnanimous THEN "unanimous" ELSE "majority"

ConsensusResult(hasConsensus, outcome, votes) ==
  [hasConsensus |-> hasConsensus, outcome |-> outcome, votes |-> votes]

evaluateConsensus_majorityFirst(rs, configMode, requireUnanimous, override) ==
  LET votes == [i \in 1..Len(rs) |-> [agent |-> rs[i].agent, vote |-> rs[i].vote]]
      nA == CountVote(rs, "APPROVE")
      nR == CountVote(rs, "REJECT")
      nV == CountVote(rs, "REVISE")
      consensusMode == effectiveMode(override, configMode, requireUnanimous)
  IN IF Len(rs) = 0 THEN ConsensusResult(FALSE, Null, <<>>)
     ELSE IF nA = Len(rs) THEN ConsensusResult(TRUE, "approved", votes)
     ELSE IF nR = Len(rs) THEN ConsensusResult(TRUE, "rejected", votes)
     ELSE IF consensusMode = "majority" /\ nA > nR
       THEN ConsensusResult(TRUE, "approved", votes)
     ELSE IF consensusMode = "majority" /\ nR > nA
       THEN ConsensusResult(TRUE, "rejected", votes)
     ELSE IF nV > 0 THEN ConsensusResult(TRUE, "revise", votes)
     ELSE ConsensusResult(FALSE, "disputed", votes)

evaluateConsensus_noMajority(rs, configMode, requireUnanimous, override) ==
  LET votes == [i \in 1..Len(rs) |-> [agent |-> rs[i].agent, vote |-> rs[i].vote]]
      nA == CountVote(rs, "APPROVE")
      nR == CountVote(rs, "REJECT")
      nV == CountVote(rs, "REVISE")
  IN IF Len(rs) = 0 THEN ConsensusResult(FALSE, Null, <<>>)
     ELSE IF nA = Len(rs) THEN ConsensusResult(TRUE, "approved", votes)
     ELSE IF nR = Len(rs) THEN ConsensusResult(TRUE, "rejected", votes)
     ELSE IF nV > 0 THEN ConsensusResult(TRUE, "revise", votes)
     ELSE ConsensusResult(FALSE, "disputed", votes)

evaluateConsensus_modeIgnored(rs, configMode, requireUnanimous, override) ==
  LET votes == [i \in 1..Len(rs) |-> [agent |-> rs[i].agent, vote |-> rs[i].vote]]
      nA == CountVote(rs, "APPROVE")
      nR == CountVote(rs, "REJECT")
      nV == CountVote(rs, "REVISE")
  IN IF Len(rs) = 0 THEN ConsensusResult(FALSE, Null, <<>>)
     ELSE IF nA = Len(rs) THEN ConsensusResult(TRUE, "approved", votes)
     ELSE IF nR = Len(rs) THEN ConsensusResult(TRUE, "rejected", votes)
     ELSE IF nV > 0 THEN ConsensusResult(TRUE, "revise", votes)
     ELSE IF nA > nR THEN ConsensusResult(TRUE, "approved", votes)
     ELSE IF nR > nA THEN ConsensusResult(TRUE, "rejected", votes)
     ELSE ConsensusResult(FALSE, "disputed", votes)

evaluateConsensus_noAllReject(rs, configMode, requireUnanimous, override) ==
  LET votes == [i \in 1..Len(rs) |-> [agent |-> rs[i].agent, vote |-> rs[i].vote]]
      nA == CountVote(rs, "APPROVE")
      nR == CountVote(rs, "REJECT")
      nV == CountVote(rs, "REVISE")
      consensusMode == effectiveMode(override, configMode, requireUnanimous)
  IN IF Len(rs) = 0 THEN ConsensusResult(FALSE, Null, <<>>)
     ELSE IF nA = Len(rs) THEN ConsensusResult(TRUE, "approved", votes)
     ELSE IF nV > 0 THEN ConsensusResult(TRUE, "revise", votes)
     ELSE IF consensusMode = "majority" /\ nA > nR
       THEN ConsensusResult(TRUE, "approved", votes)
     ELSE IF consensusMode = "majority" /\ nR > nA
       THEN ConsensusResult(TRUE, "rejected", votes)
     ELSE ConsensusResult(FALSE, "disputed", votes)

\* evaluateConsensus(reviews, config, options), with config.rules.consensusMode,
\* config.rules.requireUnanimous and options.consensusModeOverride as arguments
evaluateConsensus(rs, configMode, requireUnanimous, override) ==
  LET votes == [i \in 1..Len(rs) |-> [agent |-> rs[i].agent, vote |-> rs[i].vote]]
      nA == CountVote(rs, "APPROVE")
      nR == CountVote(rs, "REJECT")
      nV == CountVote(rs, "REVISE")
      consensusMode == effectiveMode(override, configMode, requireUnanimous)
  IN IF Len(rs) = 0 THEN ConsensusResult(FALSE, Null, <<>>)
     ELSE IF nA = Len(rs) THEN ConsensusResult(TRUE, "approved", votes)
     ELSE IF nR = Len(rs) THEN ConsensusResult(TRUE, "rejected", votes)
     ELSE IF nV > 0 THEN ConsensusResult(TRUE, "revise", votes)
     ELSE IF consensusMode = "majority" /\ nA > nR
       THEN ConsensusResult(TRUE, "approved", votes)
     ELSE IF consensusMode = "majority" /\ nR > nA
       THEN ConsensusResult(TRUE, "rejected", votes)
     ELSE ConsensusResult(FALSE, "disputed", votes)

----------------------------------------------------------------------------
(* LifecycleEngine: proposalMachine *)

newVotes_onlyNew(ctx, ev) == <<[agent |-> ev.agent, vote |-> ev.vote]>>

\* [...context.votes, { agent: event.agent, vote: event.vote }]
newVotes(ctx, ev) == Append(ctx.votes, [agent |-> ev.agent, vote |-> ev.vote])

\* guard of the first REVIEW_RECEIVED transition: all approve
guardAllApprove(ctx, ev) ==
  LET nv == newVotes(ctx, ev)
  IN (\A i \in 1..Len(nv) : nv[i].vote = "APPROVE") /\ Len(nv) > 0

guardRevise_unanimous(ctx, ev) ==
  \A i \in 1..Len(newVotes(ctx, ev)) : newVotes(ctx, ev)[i].vote = "REVISE"

\* guard of the second: the incoming vote is REVISE
guardRevise(ctx, ev) == ev.vote = "REVISE"

\* guard of the third: mixed APPROVE / REJECT
guardMixed(ctx, ev) ==
  LET nv == newVotes(ctx, ev)
  IN (\E i \in 1..Len(nv) : nv[i].vote = "APPROVE")
     /\ (\E i \in 1..Len(nv) : nv[i].vote = "REJECT")

\* guard of the fourth: all reject
guardAllReject(ctx, ev) ==
  LET nv == newVotes(ctx, ev)
  IN (\A i \in 1..Len(nv) : nv[i].vote = "REJECT") /\ Len(nv) > 0

\* pending_review.on.REVIEW_RECEIVED: the first transition whose guard holds
reviewReceivedTarget(ctx, ev) ==
  IF guardAllApprove(ctx, ev) THEN "approved"
  ELSE IF guardRevise(ctx, ev) THEN "revision"
  ELSE IF guardMixed(ctx, ev) THEN "disputed"
  ELSE IF guardAllReject(ctx, ev) THEN "rejected"
  ELSE "pending_review"

guardMaxIterations_strict(ctx) == ctx.iterations > ctx.maxIterations

\* guard of the first REVISED transition: max iterations reached
guardMaxIterations(ctx) == ctx.iterations >= ctx.maxIterations

revisedTarget_defaultFirst(ctx) == "pending_review"

\* revision.on.REVISED: escalated when the guard holds, else pending_review
revisedTarget(ctx) ==
  IF guardMaxIterations(ctx) THEN "escalated" ELSE "pending_review"

incrementIterations_none(ctx) == ctx.iterations

incrementIterations_double(ctx) == ctx.iterations + 2

\* iterations: ({ context }) => context.iterations + 1
incrementIterations(ctx) == ctx.iterations + 1

Snapshot(v, ctx) == [value |-> v, context |-> ctx]

transition_createAnywhere(v, ctx, ev) ==
  CASE ev.type = "CREATE" ->
         Snapshot("pending_review", [ctx EXCEPT !.votes = <<>>])
    [] v = "pending_review" /\ ev.type = "REVIEW_RECEIVED" ->
         Snapshot(reviewReceivedTarget(ctx, ev),
                  [ctx EXCEPT !.votes = newVotes(ctx, ev)])
    [] v = "revision" /\ ev.type = "REVISED" ->
         IF revisedTarget(ctx) = "escalated"
         THEN Snapshot("escalated",
                       [ctx EXCEPT !.iterations = incrementIterations(ctx)])
         ELSE Snapshot("pending_review",
                       [ctx EXCEPT !.iterations = incrementIterations(ctx),
                                   !.votes = <<>>])
    [] v = "disputed" /\ ev.type = "ARBITER_DECISION" ->
         IF ev.vote = "APPROVE" THEN Snapshot("approved", ctx)
         ELSE IF ev.vote = "REJECT" THEN Snapshot("rejected", ctx)
         ELSE Snapshot(v, ctx)
    [] v \in {"disputed", "escalated"} /\ ev.type = "HUMAN_DECISION" ->
         IF ev.approved THEN Snapshot("approved", ctx)
         ELSE Snapshot("rejected", ctx)
    [] v = "approved" /\ ev.type = "IMPLEMENTATION_COMPLETE" ->
         Snapshot("implemented", ctx)
    [] OTHER -> Snapshot(v, ctx)

transition_votesKept(v, ctx, ev) ==
  CASE v = "draft" /\ ev.type = "CREATE" ->
         Snapshot("pending_review", [ctx EXCEPT !.votes = <<>>])
    [] v = "pending_review" /\ ev.type = "REVIEW_RECEIVED" ->
         Snapshot(reviewReceivedTarget(ctx, ev),
                  [ctx EXCEPT !.votes = newVotes(ctx, ev)])
    [] v = "revision" /\ ev.type = "REVISED" ->
         IF revisedTarget(ctx) = "escalated"
         THEN Snapshot("escalated",
                       [ctx EXCEPT !.iterations = incrementIterations(ctx)])
         ELSE Snapshot("pending_review",
                       [ctx EXCEPT !.iterations = incrementIterations(ctx)])
    [] v = "disputed" /\ ev.type = "ARBITER_DECISION" ->
         IF ev.vote = "APPROVE" THEN Snapshot("approved", ctx)
         ELSE IF ev.vote = "REJECT" THEN Snapshot("rejected", ctx)
         ELSE Snapshot(v, ctx)
    [] v \in {"disputed", "escalated"} /\ ev.type = "HUMAN_DECISION" ->
         IF ev.approved THEN Snapshot("approved", ctx)
         ELSE Snapshot("rejected", ctx)
    [] v = "approved" /\ ev.type = "IMPLEMENTATION_COMPLETE" ->
         Snapshot("implemented", ctx)
    [] OTHER -> Snapshot(v, ctx)

transition_arbiterApproves(v, ctx, ev) ==
  CASE v = "draft" /\ ev.type = "CREATE" ->
         Snapshot("pending_review", [ctx EXCEPT !.votes = <<>>])
    [] v = "pending_review" /\ ev.type = "REVIEW_RECEIVED" ->
         Snapshot(reviewReceivedTarget(ctx, ev),
                  [ctx EXCEPT !.votes = newVotes(ctx, ev)])
    [] v = "revision" /\ ev.type = "REVISED" ->
         IF revisedTarget(ctx) = "escalated"
         THEN Snapshot("escalated",
                       [ctx EXCEPT !.iterations = incrementIterations(ctx)])
         ELSE Snapshot("pending_review",
                       [ctx EXCEPT !.iterations = incrementIterations(ctx),
                                   !.votes = <<>>])
    [] v = "disputed" /\ ev.type = "ARBITER_DECISION" ->
         IF ev.vote = "APPROVE" THEN Snapshot("approved", ctx)
         ELSE IF ev.vote = "REJECT" THEN Snapshot("approved", ctx)
         ELSE Snapshot(v, ctx)
    [] v \in {"disputed", "escalated"} /\ ev.type = "HUMAN_DECISION" ->
         IF ev.approved THEN Snapshot("approved", ctx)
         ELSE Snapshot("rejected", ctx)
    [] v = "approved" /\ ev.type = "IMPLEMENTATION_COMPLETE" ->
         Snapshot("implemented", ctx)
    [] OTHER -> Snapshot(v, ctx)

transition_humanOnlyDisputed(v, ctx, ev) ==
  CASE v = "draft" /\ ev.type = "CREATE" ->
         Snapshot("pending_review", [ctx EXCEPT !.votes = <<>>])
    [] v = "pending_review" /\ ev.type = "REVIEW_RECEIVED" ->
         Snapshot(reviewReceivedTarget(ctx, ev),
                  [ctx EXCEPT !.votes = newVotes(ctx, ev)])
    [] v = "revision" /\ ev.type = "REVISED" ->
         IF revisedTarget(ctx) = "escalated"
         THEN Snapshot("escalated",
                       [ctx EXCEPT !.iterations = incrementIterations(ctx)])
         ELSE Snapshot("pending_review",
                       [ctx EXCEPT !.iterations = incrementIterations(ctx),
                                   !.votes = <<>>])
    [] v = "disputed" /\ ev.type = "ARBITER_DECISION" ->
         IF ev.vote = "APPROVE" THEN Snapshot("approved", ctx)
         ELSE IF ev.vote = "REJECT" THEN Snapshot("rejected", ctx)
         ELSE Snapshot(v, ctx)
    [] v \in {"disputed"} /\ ev.type = "HUMAN_DECISION" ->
         IF ev.approved THEN Snapshot("approved", ctx)
         ELSE Snapshot("rejected", ctx)
    [] v = "approved" /\ ev.type = "IMPLEMENTATION_COMPLETE" ->
         Snapshot("implemented", ctx)
    [] OTHER -> Snapshot(v, ctx)

transition_arbiterRevises(v, ctx, ev) ==
  CASE v = "draft" /\ ev.type = "CREATE" ->
         Snapshot("pending_review", [ctx EXCEPT !.votes = <<>>])
    [] v = "pending_review" /\ ev.type = "REVIEW_RECEIVED" ->
         Snapshot(reviewReceivedTarget(ctx, ev),
                  [ctx EXCEPT !.votes = newVotes(ctx, ev)])
    [] v = "revision" /\ ev.type = "REVISED" ->
         IF revisedTarget(ctx) = "escalated"
         THEN Snapshot("escalated",
                       [ctx EXCEPT !.iterations = incrementIterations(ctx)])
         ELSE Snapshot("pending_review",
                       [ctx EXCEPT !.iterations = incrementIterations(ctx),
                                   !.votes = <<>>])
    [] v = "disputed" /\ ev.type = "ARBITER_DECISION" ->
         IF ev.vote = "APPROVE" THEN Snapshot("approved", ctx)
         ELSE IF ev.vote = "REJECT" THEN Snapshot("rejected", ctx)
         ELSE Snapshot("revision", ctx)
    [] v \in {"disputed", "escalated"} /\ ev.type = "HUMAN_DECISION" ->
         IF ev.approved THEN Snapshot("approved", ctx)
         ELSE Snapshot("rejected", ctx)
    [] v = "approved" /\ ev.type = "IMPLEMENTATION_COMPLETE" ->
         Snapshot("implemented", ctx)
    [] OTHER -> Snapshot(v, ctx)

transition_rejectedReopens(v, ctx, ev) ==
  CASE v = "draft" /\ ev.type = "CREATE" ->
         Snapshot("pending_review", [ctx EXCEPT !.votes = <<>>])
    [] v = "pending_review" /\ ev.type = "REVIEW_RECEIVED" ->
         Snapshot(reviewReceivedTarget(ctx, ev),
                  [ctx EXCEPT !.votes = newVotes(ctx, ev)])
    [] v = "revision" /\ ev.type = "REVISED" ->
         IF revisedTarget(ctx) = "escalated"
         THEN Snapshot("escalated",
                       [ctx EXCEPT !.iterations = incrementIterations(ctx)])
         ELSE Snapshot("pending_review",
                       [ctx EXCEPT !.iterations = incrementIterations(ctx),
                                   !.votes = <<>>])
    [] v = "disputed" /\ ev.type = "ARBITER_DECISION" ->
         IF ev.vote = "APPROVE" THEN Snapshot("approved", ctx)
         ELSE IF ev.vote = "REJECT" THEN Snapshot("rejected", ctx)
         ELSE Snapshot(v, ctx)
    [] v \in {"disputed", "escalated", "rejected"}
         /\ ev.type = "HUMAN_DECISION" ->
         IF ev.approved THEN Snapshot("approved", ctx)
         ELSE Snapshot("rejected", ctx)
    [] v = "approved" /\ ev.type = "IMPLEMENTATION_COMPLETE" ->
         Snapshot("implemented", ctx)
    [] OTHER -> Snapshot(v, ctx)

\* The machine's transition function: the snapshot after `ev` is sent to a
\* running actor whose snapshot is (v, ctx).  An event with no enabled
\* transition leaves the snapshot as it is.
transition(v, ctx, ev) ==
  CASE v = "draft" /\ ev.type = "CREATE" ->
         Snapshot("pending_review", [ctx EXCEPT !.votes = <<>>])
    [] v = "pending_review" /\ ev.type = "REVIEW_RECEIVED" ->
         Snapshot(reviewReceivedTarget(ctx, ev),
                  [ctx EXCEPT !.votes = newVotes(ctx, ev)])
    [] v = "revision" /\ ev.type = "REVISED" ->
         IF revisedTarget(ctx) = "escalated"
         THEN Snapshot("escalated",
                       [ctx EXCEPT !.iterations = incrementIterations(ctx)])
         ELSE Snapshot("pending_review",
                       [ctx EXCEPT !.iterations = incrementIterations(ctx),
                                   !.votes = <<>>])
    [] v = "disputed" /\ ev.type = "ARBITER_DECISION" ->
         IF ev.vote = "APPROVE" THEN Snapshot("approved", ctx)
         ELSE IF ev.vote = "REJECT" THEN Snapshot("rejected", ctx)
         ELSE Snapshot(v, ctx)
    [] v \in {"disputed", "escalated"} /\ ev.type = "HUMAN_DECISION" ->
         IF ev.approved THEN Snapshot("approved", ctx)
         ELSE Snapshot("rejected", ctx)
    [] v = "approved" /\ ev.type = "IMPLEMENTATION_COMPLETE" ->
         Snapshot("implemented", ctx)
    [] OTHER -> Snapshot(v, ctx)

----------------------------------------------------------------------------
(* The machine as a running actor *)

NoEvent == ProposalEvent(Null, Null, Null, FALSE)

\* No run of the machine takes iterations beyond this: a restored snapshot
\* holds at most MaxMaxIterations + 1 and one REVISED leads out of the loop.
IterationsCap == MaxMaxIterations + 3

\* The accumulator is followed up to this length: pending_review keeps
\* collecting while no guard of REVIEW_RECEIVED holds.
VotesCap == MaxSnapshotVotes + 1

\* Accumulators a snapshot is restored with: the k-th vote is the k-th
\* reviewer's.
SnapshotReviewers == <<"codex", "gemini", "claude", "codex">>
SnapshotVotes ==
  {[i \in 1..Len(vs) |-> [agent |-> SnapshotReviewers[i], vote |-> vs[i]]] :
     vs \in SeqUpTo(Vote, MaxSnapshotVotes)}
SnapshotArbiters == {Null, "claude"}

SnapshotContexts ==
  {ProposalContext(i, m, vs, a, u) :
     i \in 0..(MaxMaxIterations + 1), m \in 1..MaxMaxIterations,
     vs \in SnapshotVotes, a \in SnapshotArbiters, u \in BOOLEAN}

IdleMachine ==
  /\ value = "draft"
  /\ context = ProposalContext(0, DefaultMaxIterations, <<>>, Null, FALSE)
  /\ lastEvent = [event |-> NoEvent, from |-> Null, pre |-> context,
                  signal |-> Null]

IdleEval ==
  /\ evalInput = Null
  /\ evalResult = <<>>

IdleCmd ==
  /\ config = Null
  /\ proposal = Null
  /\ reviews = <<>>
  /\ decision = Null
  /\ run = Null
  /\ out = Null
  /\ stale = 0

IdleArb ==
  /\ arbInput = Null
  /\ arbResult = <<>>

IdlePool ==
  /\ actors = <<>>
  /\ delivered = Null

IdleLoad ==
  /\ loadInput = Null
  /\ loadResult = <<>>

IdleMatch ==
  /\ matchInput = Null
  /\ matchResult = <<>>

IdleTrace == trace = <<>>

IdleRace == pc = Null

\* createActor(proposalMachine).start()
InitFresh == IdleMachine

\* createActor(proposalMachine, { snapshot: proposalMachine.resolveState(
\*   { value, context }) }).start()
InitSnapshot ==
  /\ value \in ProposalStatus
  /\ context \in SnapshotContexts
  /\ lastEvent = [event |-> NoEvent, from |-> Null, pre |-> context,
                  signal |-> Null]

Init ==
  /\ InitFresh \/ InitSnapshot
  /\ IdleEval
  /\ IdleCmd
  /\ IdleArb
  /\ IdlePool
  /\ IdleLoad
  /\ IdleMatch
  /\ IdleTrace
  /\ IdleRace

\* What actor.send(ev) hands back to its caller: send returns undefined and
\* the machine attaches no action to an event it has no transition for.
sendSignal(v, ctx, ev) == Null

\* actor.send(ev)
Send(ev) ==
  /\ LET s == transition(value, context, ev)
     IN /\ value' = s.value
        /\ context' = s.context
  /\ lastEvent' = [event |-> ev, from |-> value, pre |-> context,
                   signal |-> sendSignal(value, context, ev)]
  /\ UNCHANGED <<evalVars, cmdVars, arbVars, poolVars, loadVars,
              matchVars, traceVars, raceVars>>

Create == Send(ProposalEvent("CREATE", Null, Null, FALSE))

ReviewReceived ==
  /\ value = "pending_review" => Len(context.votes) < VotesCap
  /\ \E a \in AgentName, v \in Vote :
       Send(ProposalEvent("REVIEW_RECEIVED", a, v, FALSE))

Revised ==
  /\ context.iterations < IterationsCap
  /\ Send(ProposalEvent("REVISED", Null, Null, FALSE))

ArbiterDecision ==
  \E v \in Vote : Send(ProposalEvent("ARBITER_DECISION", Null, v, FALSE))

HumanDecision ==
  \E b \in BOOLEAN : Send(ProposalEvent("HUMAN_DECISION", Null, Null, b))

ImplementationComplete ==
  Send(ProposalEvent("IMPLEMENTATION_COMPLETE", Null, Null, FALSE))

Next ==
  \/ Create
  \/ ReviewReceived
  \/ Revised
  \/ ArbiterDecision
  \/ HumanDecision
  \/ ImplementationComplete

Spec == Init /\ [][Next]_vars

----------------------------------------------------------------------------
(* The revision cycle alone: a proposal restored in draft with no iteration
   behind it, every review round ending in a REVISE vote and every revision
   answered by REVISED. *)

InitDraft ==
  /\ value = "draft"
  /\ context \in {c \in SnapshotContexts : c.iterations = 0}
  /\ lastEvent = [event |-> NoEvent, from |-> Null, pre |-> context,
                  signal |-> Null]
  /\ IdleEval
  /\ IdleCmd
  /\ IdleArb
  /\ IdlePool
  /\ IdleLoad
  /\ IdleMatch
  /\ IdleTrace
  /\ IdleRace

LoopCreate ==
  /\ value = "draft"
  /\ Create

LoopReviewRevise ==
  /\ value = "pending_review"
  /\ \E a \in AgentName :
       Send(ProposalEvent("REVIEW_RECEIVED", a, "REVISE", FALSE))

LoopRevised ==
  /\ value = "revision"
  /\ Revised

LoopNext ==
  \/ LoopCreate
  \/ LoopReviewRevise
  \/ LoopRevised

\* Every event the hypothesis promises is eventually sent.
SpecRevisionLoop == InitDraft /\ [][LoopNext]_vars /\ WF_vars(LoopNext)

----------------------------------------------------------------------------
(* Several proposals: one actor of proposalMachine per proposal *)

ProposalIds == {"p1", "p2"}

deliver_shared(as, id, ev) ==
  [i \in DOMAIN as |-> transition(as[i].value, as[i].context, ev)]

\* actorOf[id].send(ev): the event goes to the actor of its proposal
deliver(as, id, ev) ==
  [as EXCEPT ![id] = transition(as[id].value, as[id].context, ev)]

\* createActor(proposalMachine).start() for each proposal
InitPool ==
  /\ IdleMachine
  /\ IdleEval
  /\ IdleCmd
  /\ IdleArb
  /\ IdleLoad
  /\ IdleMatch
  /\ IdleTrace
  /\ IdleRace
  /\ actors = [id \in ProposalIds |->
                 Snapshot("draft",
                          ProposalContext(0, DefaultMaxIterations, <<>>, Null,
                                          FALSE))]
  /\ delivered = [id |-> Null, type |-> Null]

SendTo(id, ev) ==
  /\ actors' = deliver(actors, id, ev)
  /\ delivered' = [id |-> id, type |-> ev.type]
  /\ UNCHANGED <<machineVars, evalVars, cmdVars, arbVars, loadVars,
              matchVars, traceVars, raceVars>>

PoolCreate ==
  \E id \in ProposalIds : SendTo(id, ProposalEvent("CREATE", Null, Null, FALSE))

PoolReviewReceived ==
  \E id \in ProposalIds, a \in AgentName, v \in Vote :
    /\ actors[id].value = "pending_review" =>
         Len(actors[id].context.votes) < VotesCap
    /\ SendTo(id, ProposalEvent("REVIEW_RECEIVED", a, v, FALSE))

PoolRevised ==
  \E id \in ProposalIds :
    /\ actors[id].context.iterations < IterationsCap
    /\ SendTo(id, ProposalEvent("REVISED", Null, Null, FALSE))

PoolArbiterDecision ==
  \E id \in ProposalIds, v \in Vote :
    SendTo(id, ProposalEvent("ARBITER_DECISION", Null, v, FALSE))

PoolHumanDecision ==
  \E id \in ProposalIds, b \in BOOLEAN :
    SendTo(id, ProposalEvent("HUMAN_DECISION", Null, Null, b))

PoolImplementationComplete ==
  \E id \in ProposalIds :
    SendTo(id, ProposalEvent("IMPLEMENTATION_COMPLETE", Null, Null, FALSE))

PoolNext ==
  \/ PoolCreate
  \/ PoolReviewReceived
  \/ PoolRevised
  \/ PoolArbiterDecision
  \/ PoolHumanDecision
  \/ PoolImplementationComplete

SpecPool == InitPool /\ [][PoolNext]_vars

----------------------------------------------------------------------------
(* The evaluator called on its own *)

EvalReviews == SeqUpTo([agent : AgentName, vote : Vote], MaxEvalVotes)

InitEval ==
  /\ IdleMachine
  /\ IdleCmd
  /\ IdleArb
  /\ IdlePool
  /\ IdleLoad
  /\ IdleMatch
  /\ IdleTrace
  /\ IdleRace
  /\ evalInput \in [reviews : EvalReviews,
                    configMode : ConsensusMode \cup {Null},
                    requireUnanimous : BOOLEAN,
                    override : ConsensusMode \cup {Null}]
  /\ evalResult = <<>>

\* evalResult holds the returned ConsensusResult once the call has been made.
Evaluate ==
  /\ evalResult = <<>>
  /\ evalResult' = <<evaluateConsensus(evalInput.reviews, evalInput.configMode,
                                       evalInput.requireUnanimous,
                                       evalInput.override)>>
  /\ UNCHANGED <<evalInput, machineVars, cmdVars, arbVars, poolVars, loadVars,
              matchVars, traceVars, raceVars>>

EvalNext == Evaluate

SpecEval == InitEval /\ [][EvalNext]_vars

----------------------------------------------------------------------------
(* RoleAssigner: selectArbiter(config, storage, excludeFamily) *)

ArbiterStrategy == {"round-robin", "least-used", "specific"}

\* DEFAULT_CONFIG.agents[agent].modelFamily
DefaultFamily ==
  [a \in AgentName |->
     CASE a = "claude" -> "anthropic"
       [] a = "codex" -> "openai"
       [] a = "gemini" -> "google"]

\* getModelFamily(agent, config)
getModelFamily(agent, family) ==
  IF family[agent] \in {"anthropic", "openai", "google"}
  THEN family[agent] ELSE "anthropic"

eligibleArbiters_unfiltered(arbiters, family, excludeFamily) == arbiters

\* config.roles.arbiters.filter(agent => modelFamily !== excludeFamily)
eligibleArbiters(arbiters, family, excludeFamily) ==
  SelectSeq(arbiters, LAMBDA a : family[a] # excludeFamily)

leastUsed_first(eligible, arbitrations) == eligible[1]

\* The loop of the round-robin and least-used branches: the first candidate
\* whose count is strictly below every earlier one's.
leastUsed(eligible, arbitrations) ==
  LET best == CHOOSE i \in 1..Len(eligible) :
                /\ \A j \in 1..Len(eligible) :
                     arbitrations[eligible[i]] <= arbitrations[eligible[j]]
                /\ \A j \in 1..(i - 1) :
                     arbitrations[eligible[j]] > arbitrations[eligible[i]]
  IN eligible[best]

selectArbiter_none(arbiters, strategy, family, arbitrations, excludeFamily) ==
  LET eligible == eligibleArbiters(arbiters, family, excludeFamily)
  IN IF Len(eligible) = 0
     THEN Null
     ELSE IF strategy \in {"round-robin", "least-used"}
       THEN leastUsed(eligible, arbitrations)
       ELSE eligible[1]

\* selectArbiter; Null stands for the undefined that arbiters[0] of an empty
\* list yields.
selectArbiter(arbiters, strategy, family, arbitrations, excludeFamily) ==
  LET eligible == eligibleArbiters(arbiters, family, excludeFamily)
  IN IF Len(eligible) = 0
     THEN IF Len(arbiters) = 0 THEN Null ELSE arbiters[1]
     ELSE IF strategy \in {"round-robin", "least-used"}
       THEN leastUsed(eligible, arbitrations)
       ELSE eligible[1]

\* selectArbiter called as nextCommand calls it: the family to exclude is the
\* family of the agent of the last review.
InitArb ==
  /\ IdleMachine
  /\ IdleEval
  /\ IdleCmd
  /\ IdlePool
  /\ IdleLoad
  /\ IdleMatch
  /\ IdleTrace
  /\ IdleRace
  /\ arbInput \in [arbiters : SeqUpTo(AgentName, MaxArbiters),
                   strategy : ArbiterStrategy,
                   family : [AgentName -> ModelFamily],
                   arbitrations : [AgentName -> 0..MaxArbitrations],
                   lastReviewer : AgentName]
  /\ arbResult = <<>>

SelectArbiter ==
  /\ arbResult = <<>>
  /\ arbResult' = <<selectArbiter(arbInput.arbiters, arbInput.strategy,
                                  arbInput.family, arbInput.arbitrations,
                                  getModelFamily(arbInput.lastReviewer,
                                                 arbInput.family))>>
  /\ UNCHANGED <<arbInput, machineVars, evalVars, cmdVars, poolVars, loadVars,
              matchVars, traceVars, raceVars>>

ArbNext == SelectArbiter

SpecArbiter == InitArb /\ [][ArbNext]_vars

----------------------------------------------------------------------------
(* Configuration: loadConfig and rolesSchema *)

\* A [roles] table as written in the file: planner is Null when the key is
\* absent and Empty when set to "", reviewers.present is FALSE when the key
\* is absent.
Empty == ""

RawRoles ==
  [file : BOOLEAN,
   planner : AgentName \cup {Null, Empty},
   reviewers : [present : BOOLEAN,
                list : SeqUpTo(AgentName, MaxDefaultReviewers)]]

LoadOutcome(ok, planner, reviewers) ==
  [ok |-> ok, defaultPlanner |-> planner, defaultReviewers |-> reviewers]

\* loadConfig: DEFAULT_CONFIG without a file; else rolesSchema, whose enum
\* rejects a planner that is no agent name and whose transform fills absent
\* keys with 'claude' and ['codex']; a parse error is rethrown.
loadConfig(raw) ==
  IF ~raw.file
  THEN LoadOutcome(TRUE, "claude", <<"codex">>)
  ELSE IF raw.planner # Null /\ raw.planner \notin AgentName
  THEN LoadOutcome(FALSE, Null, <<>>)
  ELSE LoadOutcome(TRUE,
                   IF raw.planner = Null THEN "claude" ELSE raw.planner,
                   IF raw.reviewers.present THEN raw.reviewers.list
                   ELSE <<"codex">>)

InitLoad ==
  /\ IdleMachine
  /\ IdleEval
  /\ IdleCmd
  /\ IdleArb
  /\ IdlePool
  /\ IdleMatch
  /\ IdleTrace
  /\ IdleRace
  /\ loadInput \in
       {r \in RawRoles :
          /\ ~r.reviewers.present => r.reviewers.list = <<>>
          /\ ~r.file => (r.planner = Null /\ ~r.reviewers.present)}
  /\ loadResult = <<>>

LoadConfig ==
  /\ loadResult = <<>>
  /\ loadResult' = <<loadConfig(loadInput)>>
  /\ UNCHANGED <<loadInput, machineVars, evalVars, cmdVars, arbVars, poolVars,
              matchVars, traceVars, raceVars>>

LoadNext == LoadConfig

SpecLoad == InitLoad /\ [][LoadNext]_vars

----------------------------------------------------------------------------
(* Commands over the store: propose, add-review, next, decide, complete, run *)

\* DEFAULT_CONFIG: roles, rules and the agents' model families
DEFAULT_CONFIG ==
  [family |-> DefaultFamily,
   defaultReviewers |-> <<"codex">>,
   arbiterStrategy |-> "round-robin",
   arbiters |-> <<"gemini", "claude">>,
   maxIterations |-> DefaultMaxIterations,
   requireUnanimous |-> FALSE,
   consensusMode |-> "majority"]

\* The configurations a project file can override the defaults to.
CmdReviewers == {<<"codex">>, <<"gemini", "codex">>}

CmdArbiters == {<<"gemini", "claude">>, <<"claude", "codex">>}

CmdConfigs ==
  {[DEFAULT_CONFIG EXCEPT !.defaultReviewers = r, !.arbiters = a] :
     r \in CmdReviewers, a \in CmdArbiters}

\* The proposals row; exists is FALSE while getProposal returns null.
NoProposal ==
  [exists |-> FALSE, status |-> "draft", reviewers |-> <<>>,
   arbiter |-> Null, iterations |-> 0]

\* storage.createProposal: iterations 0, arbiter NULL
createProposal(status, reviewers) ==
  [exists |-> TRUE, status |-> status, reviewers |-> reviewers,
   arbiter |-> Null, iterations |-> 0]

\* storage.updateProposal(id, {status})
updateProposal(p, status) == [p EXCEPT !.status = status]

\* A reviews row. The id is `${proposalId}-${agent}` for add-review and
\* carries Date.now() for the run workflow, so only ids of add-review clash.
Review(agent, vote, src) == [agent |-> agent, vote |-> vote, src |-> src]

\* storage.getStats().byAgent[a].arbitrations: proposals whose arbiter is a
arbitrations(p) ==
  [a \in AgentName |-> IF p.exists /\ p.arbiter = a THEN 1 ELSE 0]

\* What a command reports; unused fields are Null.
\* The instructions line of a directive: its text, and the agent and the
\* iteration numbers the text is filled in with.
Instructions(text, agent, n, of) ==
  [text |-> text, agent |-> agent, n |-> n, of |-> of]

NoInstructions == Instructions(Null, Null, 0, 0)

\* again: the command before this one was the same read (next after next).
Output(cmd, ok, action, agent, outcome, status) ==
  [cmd |-> cmd, ok |-> ok, action |-> action, agent |-> agent,
   outcome |-> outcome, status |-> status,
   instructions |-> NoInstructions, again |-> FALSE]

NoOutput == Output(Null, TRUE, Null, Null, Null, Null)

NotFound(cmd) == Output(cmd, FALSE, Null, Null, Null, Null)

RunIdle == [pc |-> "idle", i |-> 0, votes |-> <<>>, mode |-> "majority",
            skip |-> FALSE]

\* evaluateConsensusSimple(votes, mode) of the run workflow
evaluateConsensusSimple(votes, mode) ==
  LET nA == Cardinality({i \in 1..Len(votes) : votes[i] = "APPROVE"})
      nR == Cardinality({i \in 1..Len(votes) : votes[i] = "REJECT"})
      nV == Cardinality({i \in 1..Len(votes) : votes[i] = "REVISE"})
  IN IF Len(votes) = 0 THEN "pending"
     ELSE IF nA = Len(votes) THEN "approved"
     ELSE IF nR = Len(votes) THEN "rejected"
     ELSE IF nV > 0 THEN "revision"
     ELSE IF mode = "majority" /\ nA > nR THEN "approved"
     ELSE IF mode = "majority" /\ nR > nA THEN "rejected"
     ELSE "disputed"

\* the newStatus switch of the run workflow
runStatus(outcome) ==
  IF outcome \in {"approved", "rejected", "revision", "disputed"}
  THEN outcome ELSE "pending_review"

\* add-review's suggestedStatus / nextAction
suggested(p, consensus) ==
  IF consensus.hasConsensus /\ consensus.outcome = "approved"
    THEN <<"approved", "implement">>
  ELSE IF consensus.hasConsensus /\ consensus.outcome = "rejected"
    THEN <<"rejected", "escalate_human">>
  ELSE IF consensus.hasConsensus /\ consensus.outcome = "revise"
    THEN <<"revision", "revise_proposal">>
  ELSE IF ~consensus.hasConsensus /\ consensus.outcome = "disputed"
    THEN <<"disputed", "invoke_arbiter">>
  ELSE <<p.status, "request_review">>

\* next: family of the agent of the last review, 'openai' without reviews
lastReviewerFamily(cfg, rs) ==
  IF Len(rs) > 0 THEN getModelFamily(rs[Len(rs)].agent, cfg.family)
  ELSE "openai"

\* next: proposal.reviewers.filter(r => !reviewedAgents.has(r))
pendingReviewers(p, rs) ==
  SelectSeq(p.reviewers, LAMBDA r : \A i \in 1..Len(rs) : rs[i].agent # r)

nextArbiter_rotating(cfg, p, rs) ==
  LET a == selectArbiter(cfg.arbiters, cfg.arbiterStrategy, cfg.family,
                         arbitrations(p), lastReviewerFamily(cfg, rs))
  IN IF out.cmd = "next" /\ out.agent = a
     THEN CHOOSE b \in {cfg.arbiters[i] : i \in 1..Len(cfg.arbiters)} : b # a
     ELSE a

\* next: selectArbiter(config, storage, lastReviewerFamily)
nextArbiter(cfg, p, rs) ==
  selectArbiter(cfg.arbiters, cfg.arbiterStrategy, cfg.family,
                arbitrations(p), lastReviewerFamily(cfg, rs))

\* next: the switch over proposal.status, as <<nextAction, agent>>
nextAction(cfg, p, rs) ==
  LET consensus == evaluateConsensus(rs, cfg.consensusMode,
                                     cfg.requireUnanimous, Null)
      pending == pendingReviewers(p, rs)
  IN CASE p.status = "draft" -> <<"create_proposal", Null>>
       [] p.status = "pending_review" ->
            IF Len(pending) > 0 THEN <<"request_review", pending[1]>>
            ELSE IF consensus.outcome = "approved" THEN <<"implement", Null>>
            ELSE IF consensus.outcome = "revise"
              THEN <<"revise_proposal", Null>>
            ELSE IF consensus.outcome = "disputed" \/ ~consensus.hasConsensus
              THEN <<"invoke_arbiter", nextArbiter(cfg, p, rs)>>
            ELSE <<"request_review", Null>>
       [] p.status = "revision" ->
            IF p.iterations >= cfg.maxIterations
            THEN <<"escalate_human", Null>>
            ELSE <<"revise_proposal", Null>>
       [] p.status = "disputed" ->
            <<"invoke_arbiter",
              IF p.arbiter # Null THEN p.arbiter ELSE nextArbiter(cfg, p, rs)>>
       [] p.status = "escalated" -> <<"escalate_human", Null>>
       [] p.status = "approved" -> <<"implement", Null>>
       [] p.status = "implemented" -> <<"mark_complete", Null>>
       [] p.status = "rejected" -> <<"escalate_human", Null>>

InitCmd ==
  /\ IdleMachine
  /\ IdleEval
  /\ IdleArb
  /\ IdlePool
  /\ IdleLoad
  /\ IdleMatch
  /\ IdleTrace
  /\ IdleRace
  /\ config \in CmdConfigs
  /\ proposal = NoProposal
  /\ reviews = <<>>
  /\ decision = "none"
  /\ run = RunIdle
  /\ out = NoOutput
  /\ stale = 0

CmdFrame == UNCHANGED <<config, machineVars, evalVars, arbVars, poolVars, loadVars,
              matchVars, traceVars, raceVars>>

\* corrum propose
Propose ==
  /\ ~proposal.exists
  /\ proposal' = createProposal("pending_review", config.defaultReviewers)
  /\ out' = Output("propose", TRUE, Null, Null, Null, "pending_review")
  /\ UNCHANGED <<reviews, decision, run, stale>>
  /\ CmdFrame

\* corrum add-review --agent --vote [--consensus-mode]
AddReview ==
  \E agent \in AgentName, vote \in Vote, override \in ConsensusMode \cup {Null} :
    /\ Len(reviews) < MaxReviews
    /\ IF ~proposal.exists
       THEN /\ out' = NotFound("add-review")
            /\ UNCHANGED reviews
       ELSE IF \E i \in 1..Len(reviews) :
                 reviews[i].src = "add-review" /\ reviews[i].agent = agent
       THEN /\ out' = Output("add-review", FALSE, Null, agent, Null, Null)
            /\ UNCHANGED reviews
       ELSE LET allReviews == Append(reviews, Review(agent, vote, "add-review"))
                consensus == evaluateConsensus(allReviews, config.consensusMode,
                                               config.requireUnanimous, override)
            IN /\ reviews' = allReviews
               /\ out' = Output("add-review", TRUE,
                                suggested(proposal, consensus)[2], agent,
                                consensus.outcome,
                                suggested(proposal, consensus)[1])
    /\ UNCHANGED <<proposal, decision, run, stale>>
    /\ CmdFrame

\* next: the instructions string of each branch of the switch
nextInstructions(cfg, p, na) ==
  CASE na[1] = "create_proposal" ->
         Instructions("Create the proposal document", Null, 0, 0)
    [] na[1] = "request_review" /\ na[2] # Null ->
         Instructions("Request review from", na[2], 0, 0)
    [] na[1] = "request_review" /\ na[2] = Null ->
         Instructions("Continue with reviews", Null, 0, 0)
    [] na[1] = "implement" ->
         Instructions("Implement the approved proposal", Null, 0, 0)
    [] na[1] = "revise_proposal" /\ p.status = "pending_review" ->
         Instructions("Revise the proposal based on feedback", Null, 0, 0)
    [] na[1] = "revise_proposal" /\ p.status = "revision" ->
         Instructions("Revise the proposal (iteration", Null,
                      p.iterations + 1, cfg.maxIterations)
    [] na[1] = "invoke_arbiter" /\ p.status = "pending_review" ->
         Instructions("Invoke as arbiter to resolve dispute", na[2], 0, 0)
    [] na[1] = "invoke_arbiter" /\ p.status = "disputed" ->
         Instructions("Invoke as arbiter", na[2], 0, 0)
    [] na[1] = "escalate_human" /\ p.status = "revision" ->
         Instructions("Max iterations reached. Human decision required.",
                      Null, 0, 0)
    [] na[1] = "escalate_human" /\ p.status = "escalated" ->
         Instructions("Human decision required", Null, 0, 0)
    [] na[1] = "escalate_human" /\ p.status = "rejected" ->
         Instructions("Proposal was rejected", Null, 0, 0)
    [] na[1] = "mark_complete" ->
         Instructions("Mark proposal as complete", Null, 0, 0)

NextCmd_recordsArbiter ==
  /\ proposal.exists
  /\ LET na == nextAction(config, proposal, reviews)
         consensus == evaluateConsensus(reviews, config.consensusMode,
                                        config.requireUnanimous, Null)
     IN /\ out' = [Output("next", TRUE, na[1], na[2], consensus.outcome,
                          proposal.status)
                     EXCEPT !.instructions =
                              nextInstructions(config, proposal, na),
                            !.again = (out.cmd = "next")]
        /\ proposal' = [proposal EXCEPT !.arbiter = na[2]]
  /\ UNCHANGED <<reviews, decision, run, stale>>
  /\ UNCHANGED <<config, machineVars, evalVars, arbVars, poolVars, loadVars,
              matchVars, traceVars, raceVars>>

\* corrum next
NextCmd ==
  /\ IF ~proposal.exists
     THEN out' = [NotFound("next") EXCEPT !.again = (out.cmd = "next")]
     ELSE LET na == nextAction(config, proposal, reviews)
              consensus == evaluateConsensus(reviews, config.consensusMode,
                                             config.requireUnanimous, Null)
          IN IF na[1] = "invoke_arbiter" /\ na[2] = Null
             THEN out' = [Output("next", FALSE, Null, Null, Null, Null)
                            EXCEPT !.again = (out.cmd = "next")]
             ELSE out' = [Output("next", TRUE, na[1], na[2], consensus.outcome,
                                 proposal.status)
                            EXCEPT !.instructions =
                                     nextInstructions(config, proposal, na),
                                   !.again = (out.cmd = "next")]
  /\ UNCHANGED <<proposal, reviews, decision, run, stale>>
  /\ CmdFrame

\* corrum decide --outcome
Decide ==
  \E outcome \in {"approved", "rejected", "deferred"} :
    /\ IF ~proposal.exists
       THEN /\ out' = NotFound("decide")
            /\ UNCHANGED <<proposal, decision>>
       ELSE LET newStatus == IF outcome = "deferred" THEN "escalated"
                             ELSE outcome
            IN /\ decision' = outcome
               /\ proposal' = updateProposal(proposal, newStatus)
               /\ out' = Output("decide", TRUE, Null, Null, outcome, newStatus)
    /\ UNCHANGED <<reviews, run, stale>>
    /\ CmdFrame

\* corrum complete
Complete ==
  /\ IF ~proposal.exists
     THEN /\ out' = NotFound("complete")
          /\ UNCHANGED proposal
     ELSE IF proposal.status # "approved"
     THEN /\ out' = Output("complete", FALSE, Null, Null, Null, proposal.status)
          /\ UNCHANGED proposal
     ELSE /\ proposal' = updateProposal(proposal, "implemented")
          /\ out' = Output("complete", TRUE, Null, Null, Null, "implemented")
  /\ UNCHANGED <<reviews, decision, run, stale>>
  /\ CmdFrame

\* The planner acts on a revise_proposal directive. No command records it:
\* the row keeps its status and iterations, the reviews stay.
ReviseProposal ==
  /\ proposal.exists
  /\ nextAction(config, proposal, reviews)[1] = "revise_proposal"
  /\ stale < Len(reviews)
  /\ stale' = Len(reviews)
  /\ out' = NoOutput
  /\ UNCHANGED <<proposal, reviews, decision, run>>
  /\ CmdFrame

\* The run workflow after its last review: consensus over its own votes,
\* then the status update; implementation follows an approval unless skipped.
runConsensus(r, p) ==
  LET outcome == evaluateConsensusSimple(r.votes, r.mode)
  IN <<[r EXCEPT !.pc = IF outcome = "approved" /\ ~r.skip
                        THEN "implement" ELSE "done"],
       updateProposal(p, runStatus(outcome)),
       Output("run", TRUE, Null, Null, outcome, runStatus(outcome))>>

\* corrum run, up to its first await: the proposal is created
RunCreate ==
  \E mode \in ConsensusMode, skip \in BOOLEAN :
    /\ ~proposal.exists
    /\ run.pc = "idle"
    /\ LET p == createProposal("pending_review", config.defaultReviewers)
           r == [pc |-> "review", i |-> 1, votes |-> <<>>, mode |-> mode,
                 skip |-> skip]
       IN IF Len(p.reviewers) = 0
          THEN /\ run' = runConsensus(r, p)[1]
               /\ proposal' = runConsensus(r, p)[2]
               /\ out' = runConsensus(r, p)[3]
          ELSE /\ run' = r
               /\ proposal' = p
               /\ out' = Output("run", TRUE, Null, Null, Null, "pending_review")
    /\ UNCHANGED <<reviews, decision, stale>>
    /\ CmdFrame

\* corrum run, one reviewer returns: the review is stored; after the last
\* one the consensus is evaluated and the status written in the same turn
RunReview ==
  \E vote \in Vote :
    /\ run.pc = "review"
    /\ Len(reviews) < MaxReviews
    /\ LET reviewer == proposal.reviewers[run.i]
           r == [run EXCEPT !.votes = Append(@, vote), !.i = @ + 1]
       IN /\ reviews' = Append(reviews, Review(reviewer, vote, "run"))
          /\ IF run.i = Len(proposal.reviewers)
             THEN /\ run' = runConsensus(r, proposal)[1]
                  /\ proposal' = runConsensus(r, proposal)[2]
                  /\ out' = runConsensus(r, proposal)[3]
             ELSE /\ run' = r
                  /\ out' = Output("run", TRUE, Null, reviewer, Null,
                                   proposal.status)
                  /\ UNCHANGED proposal
    /\ UNCHANGED <<decision, stale>>
    /\ CmdFrame

\* corrum run, the implementer returns
RunImplement ==
  /\ run.pc = "implement"
  /\ run' = [run EXCEPT !.pc = "done"]
  /\ proposal' = updateProposal(proposal, "implemented")
  /\ out' = Output("run", TRUE, Null, Null, "approved", "implemented")
  /\ UNCHANGED <<reviews, decision, stale>>
  /\ CmdFrame

CmdNext ==
  \/ Propose
  \/ AddReview
  \/ NextCmd
  \/ Decide
  \/ Complete
  \/ ReviseProposal
  \/ RunCreate
  \/ RunReview
  \/ RunImplement

SpecCmd == InitCmd /\ [][CmdNext]_vars

----------------------------------------------------------------------------
(* Properties of the lifecycle engine *)

Handled(type, from) ==
  /\ lastEvent.event.type = type
  /\ lastEvent.from = from

\* C1: with every review round ending in revision and every revision answered
\* by REVISED, a proposal that starts in draft with iterations = 0 reaches
\* escalated, for every maxIterations > 0.
C1_RevisionCycleEscalates == <>(value = "escalated")

C1_Witness ==
  /\ value = "escalated"
  /\ Handled("REVISED", "revision")
  /\ context.iterations = context.maxIterations + 1

\* The state the evaluator's outcome stands for.
OutcomeStatus(outcome) ==
  CASE outcome = "approved" -> "approved"
    [] outcome = "rejected" -> "rejected"
    [] outcome = "revise" -> "revision"
    [] outcome = "disputed" -> "disputed"
    [] OTHER -> "pending_review"

\* C2: the state entered on REVIEW_RECEIVED in pending_review is the one the
\* evaluator's outcome over accumulator + new vote determines, under the
\* proposal's consensus mode.
C2_TargetIsEvaluatorOutcome ==
  Handled("REVIEW_RECEIVED", "pending_review") =>
    value = OutcomeStatus(
              evaluateConsensus(newVotes(lastEvent.pre, lastEvent.event), Null,
                                lastEvent.pre.requireUnanimous, Null).outcome)

\* C3 as stated: REVISED in revision at iterations = maxIterations - 1 leads to
\* escalated with iterations one higher.
C3_EscalatesOneBelowMax ==
  (Handled("REVISED", "revision")
     /\ lastEvent.pre.iterations = lastEvent.pre.maxIterations - 1) =>
    /\ value = "escalated"
    /\ context.iterations = lastEvent.pre.iterations + 1

\* C3 amended: REVISED in revision at iterations = maxIterations leads to
\* escalated with iterations one higher; at maxIterations - 1 it leads back to
\* pending_review, also with iterations one higher.
C3_EscalatesAtMax ==
  /\ (Handled("REVISED", "revision")
        /\ lastEvent.pre.iterations = lastEvent.pre.maxIterations) =>
       /\ value = "escalated"
       /\ context.iterations = lastEvent.pre.iterations + 1
  /\ (Handled("REVISED", "revision")
        /\ lastEvent.pre.iterations = lastEvent.pre.maxIterations - 1) =>
       /\ value = "pending_review"
       /\ context.iterations = lastEvent.pre.iterations + 1

C3_Witness ==
  /\ Handled("REVISED", "revision")
  /\ lastEvent.pre.iterations = lastEvent.pre.maxIterations
  /\ value = "escalated"
  /\ context.iterations = context.maxIterations + 1

\* C4: REVISED in revision leads to escalated when iterations >= maxIterations
\* and to pending_review otherwise, and raises iterations by exactly 1 in both
\* cases.
C4_RevisedRoutesByBound ==
  Handled("REVISED", "revision") =>
    /\ value = IF lastEvent.pre.iterations >= lastEvent.pre.maxIterations
               THEN "escalated" ELSE "pending_review"
    /\ context.iterations = lastEvent.pre.iterations + 1

C4_Witness ==
  /\ Handled("REVISED", "revision")
  /\ lastEvent.pre.iterations < lastEvent.pre.maxIterations
  /\ value = "pending_review"
  /\ context.iterations = lastEvent.pre.iterations + 1

\* C5: a REVISE vote received in pending_review leads to revision, whatever
\* the accumulator holds.
C5_ReviseVoteLeadsToRevision ==
  (Handled("REVIEW_RECEIVED", "pending_review")
     /\ lastEvent.event.vote = "REVISE") => value = "revision"

C5_Witness ==
  /\ Handled("REVIEW_RECEIVED", "pending_review")
  /\ lastEvent.event.vote = "REVISE"
  /\ \E i \in 1..Len(lastEvent.pre.votes) :
       lastEvent.pre.votes[i].vote = "APPROVE"
  /\ value = "revision"

\* C11: iterations changes only when REVISED is handled in revision, where it
\* grows by exactly 1; every other event in every state leaves it as it was.
C11_IterationsOnlyOnRevised ==
  lastEvent.from # Null =>
    context.iterations =
      IF Handled("REVISED", "revision")
      THEN lastEvent.pre.iterations + 1
      ELSE lastEvent.pre.iterations

C11_Witness ==
  /\ Handled("REVISED", "revision")
  /\ lastEvent.pre.iterations = 0
  /\ context.iterations = 1

\* The (state, event) pairs for which the machine declares no transition.
Undeclared ==
  (ProposalStatus \X EventType)
    \ {<<"draft", "CREATE">>, <<"pending_review", "REVIEW_RECEIVED">>,
       <<"revision", "REVISED">>, <<"disputed", "ARBITER_DECISION">>,
       <<"disputed", "HUMAN_DECISION">>, <<"escalated", "HUMAN_DECISION">>,
       <<"approved", "IMPLEMENTATION_COMPLETE">>}

\* C12: an event sent in a state that declares no transition for it leaves
\* the state, the accumulator, iterations and arbiter as they were; the send
\* completes.
C12_UndeclaredEventIsNoOp ==
  (lastEvent.from # Null
     /\ <<lastEvent.from, lastEvent.event.type>> \in Undeclared) =>
    /\ value = lastEvent.from
    /\ context.votes = lastEvent.pre.votes
    /\ context.iterations = lastEvent.pre.iterations
    /\ context.arbiter = lastEvent.pre.arbiter

C12_Witness ==
  /\ Handled("CREATE", "pending_review")
  /\ Len(lastEvent.pre.votes) = 1
  /\ value = "pending_review"
  /\ context.votes = lastEvent.pre.votes

\* C13: an event sent in a state with no matching transition is reported to
\* the caller as an ignored / invalid transition.
C13_IgnoredEventIsReported ==
  (lastEvent.from # Null
     /\ transition(lastEvent.from, lastEvent.pre, lastEvent.event)
          = Snapshot(lastEvent.from, lastEvent.pre)
     /\ <<lastEvent.from, lastEvent.event.type>> \in Undeclared) =>
    lastEvent.signal = "ignored"

\* C14: pending_review moves to approved only when every reviewer assigned to
\* the proposal has voted APPROVE: for every assignment that the voters so far
\* belong to, each assigned reviewer has an APPROVE in the accumulator.
C14_ApprovedOnlyByAllAssigned ==
  (Handled("REVIEW_RECEIVED", "pending_review") /\ value = "approved") =>
    \A assigned \in SUBSET AgentName :
      (\A i \in 1..Len(context.votes) : context.votes[i].agent \in assigned) =>
        \A r \in assigned :
          \E i \in 1..Len(context.votes) :
            context.votes[i] = [agent |-> r, vote |-> "APPROVE"]

\* C18: every entry into pending_review, by CREATE from draft or by REVISED
\* from revision, leaves the accumulator empty.
C18_EntryClearsVotes ==
  (\/ Handled("CREATE", "draft")
   \/ Handled("REVISED", "revision") /\ value = "pending_review") =>
    /\ value = "pending_review"
    /\ context.votes = <<>>

C18_Witness ==
  /\ Handled("REVISED", "revision")
  /\ Len(lastEvent.pre.votes) > 0
  /\ value = "pending_review"
  /\ context.votes = <<>>

\* C19: REVIEW_RECEIVED(agent, vote) handled in pending_review puts exactly
\* that pair at the end of the accumulator and keeps the earlier entries in
\* order, whichever state is entered.
C19_VoteAppended ==
  Handled("REVIEW_RECEIVED", "pending_review") =>
    /\ Len(context.votes) = Len(lastEvent.pre.votes) + 1
    /\ context.votes[Len(context.votes)]
         = [agent |-> lastEvent.event.agent, vote |-> lastEvent.event.vote]
    /\ \A i \in 1..Len(lastEvent.pre.votes) :
         context.votes[i] = lastEvent.pre.votes[i]

C19_Witness ==
  /\ Handled("REVIEW_RECEIVED", "pending_review")
  /\ Len(lastEvent.pre.votes) = 1
  /\ lastEvent.pre.votes[1].vote = "REVISE"
  /\ lastEvent.event.vote = "REJECT"
  /\ value = "pending_review"
  /\ Len(context.votes) = 2

\* C20: in disputed, ARBITER_DECISION(APPROVE) leads to approved and
\* ARBITER_DECISION(REJECT) to rejected.
C20_ArbiterDecides ==
  Handled("ARBITER_DECISION", "disputed") =>
    /\ lastEvent.event.vote = "APPROVE" => value = "approved"
    /\ lastEvent.event.vote = "REJECT" => value = "rejected"

C20_Witness ==
  /\ Handled("ARBITER_DECISION", "disputed")
  /\ lastEvent.event.vote = "REJECT"
  /\ value = "rejected"

\* C21: in disputed and in escalated, HUMAN_DECISION(approved) leads to
\* approved when approved is true and to rejected when it is false.
C21_HumanDecides ==
  (Handled("HUMAN_DECISION", "disputed")
     \/ Handled("HUMAN_DECISION", "escalated")) =>
    value = IF lastEvent.event.approved THEN "approved" ELSE "rejected"

C21_Witness ==
  /\ Handled("HUMAN_DECISION", "escalated")
  /\ ~lastEvent.event.approved
  /\ value = "rejected"

\* C22: ARBITER_DECISION(REVISE) received in disputed leaves the proposal in
\* disputed with its context as it was.
C22_ArbiterCannotRevise ==
  (Handled("ARBITER_DECISION", "disputed")
     /\ lastEvent.event.vote = "REVISE") =>
    /\ value = "disputed"
    /\ context = lastEvent.pre

C22_Witness ==
  /\ Handled("ARBITER_DECISION", "disputed")
  /\ lastEvent.event.vote = "REVISE"
  /\ value = "disputed"
  /\ Len(context.votes) = 1

\* C24: rejected and implemented are terminal: no event of any type changes
\* the state or the context of a proposal in either.
C24_FinalStatesAbsorb ==
  lastEvent.from \in {"rejected", "implemented"} =>
    /\ value = lastEvent.from
    /\ context = lastEvent.pre

C24_Witness ==
  /\ Handled("HUMAN_DECISION", "rejected")
  /\ lastEvent.event.approved
  /\ value = "rejected"
  /\ context = lastEvent.pre

----------------------------------------------------------------------------
(* Properties of the evaluator *)

\* C6: a vote list with at least one REVISE vote evaluates to outcome revise
\* with consensus reached, under either mode and whatever the other votes.
C6_AnyReviseYieldsRevise ==
  (evalResult # <<>> /\ CountVote(evalInput.reviews, "REVISE") >= 1) =>
    /\ evalResult[1].outcome = "revise"
    /\ evalResult[1].hasConsensus

C6_Witness ==
  /\ evalResult # <<>>
  /\ CountVote(evalInput.reviews, "APPROVE") = 2
  /\ CountVote(evalInput.reviews, "REVISE") = 1
  /\ effectiveMode(evalInput.override, evalInput.configMode,
                   evalInput.requireUnanimous) = "majority"
  /\ evalResult[1].outcome = "revise"

\* The mode the evaluated call ran under.
EvalMode ==
  effectiveMode(evalInput.override, evalInput.configMode,
                evalInput.requireUnanimous)

\* C15: in majority mode a list with no REVISE vote and unequal APPROVE and
\* REJECT counts reaches consensus with the outcome of the larger side.
C15_MajorityLargerSideWins ==
  (/\ evalResult # <<>>
   /\ EvalMode = "majority"
   /\ CountVote(evalInput.reviews, "REVISE") = 0
   /\ CountVote(evalInput.reviews, "APPROVE")
        # CountVote(evalInput.reviews, "REJECT")) =>
    /\ evalResult[1].hasConsensus
    /\ evalResult[1].outcome =
         IF CountVote(evalInput.reviews, "APPROVE")
              > CountVote(evalInput.reviews, "REJECT")
         THEN "approved" ELSE "rejected"

C15_Witness ==
  /\ evalResult # <<>>
  /\ EvalMode = "majority"
  /\ CountVote(evalInput.reviews, "REJECT") = 2
  /\ CountVote(evalInput.reviews, "APPROVE") = 1
  /\ evalResult[1].outcome = "rejected"
  /\ evalResult[1].hasConsensus

\* C16: a list with no REVISE vote that holds both APPROVE and REJECT gives
\* no consensus and outcome disputed always in unanimous mode, and in majority
\* mode exactly when the two counts are equal.
C16_MixedVotesDisputed ==
  (/\ evalResult # <<>>
   /\ CountVote(evalInput.reviews, "REVISE") = 0
   /\ CountVote(evalInput.reviews, "APPROVE") > 0
   /\ CountVote(evalInput.reviews, "REJECT") > 0) =>
    LET disputed == /\ ~evalResult[1].hasConsensus
                    /\ evalResult[1].outcome = "disputed"
    IN IF EvalMode = "unanimous" THEN disputed
       ELSE disputed <=> (CountVote(evalInput.reviews, "APPROVE")
                            = CountVote(evalInput.reviews, "REJECT"))

C16_Witness ==
  /\ evalResult # <<>>
  /\ EvalMode = "unanimous"
  /\ CountVote(evalInput.reviews, "APPROVE") = 2
  /\ CountVote(evalInput.reviews, "REJECT") = 1
  /\ evalResult[1].outcome = "disputed"
  /\ ~evalResult[1].hasConsensus

\* C17: a non-empty list of only APPROVE votes gives approved and one of only
\* REJECT votes gives rejected, with consensus reached, under either mode.
C17_UnanimousListsDecide ==
  (evalResult # <<>> /\ Len(evalInput.reviews) > 0) =>
    /\ CountVote(evalInput.reviews, "APPROVE") = Len(evalInput.reviews) =>
         /\ evalResult[1].outcome = "approved"
         /\ evalResult[1].hasConsensus
    /\ CountVote(evalInput.reviews, "REJECT") = Len(evalInput.reviews) =>
         /\ evalResult[1].outcome = "rejected"
         /\ evalResult[1].hasConsensus

C17_Witness ==
  /\ evalResult # <<>>
  /\ EvalMode = "unanimous"
  /\ Len(evalInput.reviews) = 2
  /\ CountVote(evalInput.reviews, "REJECT") = 2
  /\ evalResult[1].outcome = "rejected"
  /\ evalResult[1].hasConsensus

----------------------------------------------------------------------------
(* Properties of arbiter selection *)

\* C9: selection never returns a candidate of the family of the most recent
\* dispute-contributing reviewer when some configured candidate has another
\* family.
C9_ArbiterAvoidsLastReviewerFamily ==
  (/\ arbResult # <<>>
   /\ \E i \in 1..Len(arbInput.arbiters) :
        arbInput.family[arbInput.arbiters[i]]
          # arbInput.family[arbInput.lastReviewer]) =>
    /\ arbResult[1] \in AgentName
    /\ arbInput.family[arbResult[1]] # arbInput.family[arbInput.lastReviewer]

C9_Witness ==
  /\ arbResult # <<>>
  /\ Len(arbInput.arbiters) = 2
  /\ arbInput.family[arbInput.arbiters[1]]
       = arbInput.family[arbInput.lastReviewer]
  /\ arbResult[1] = arbInput.arbiters[2]
  /\ arbInput.family[arbResult[1]] # arbInput.family[arbInput.lastReviewer]

----------------------------------------------------------------------------
(* Properties of the commands over the store *)

\* Every pair <<from, to>> of distinct states that some transition of
\* proposalMachine connects.
TransitionTable ==
  {<<v, transition(v, ctx, ev).value>> :
     v \in ProposalStatus, ctx \in SnapshotContexts,
     ev \in {ProposalEvent(t, a, vt, b) :
               t \in EventType, a \in {"codex"}, vt \in Vote, b \in BOOLEAN}}
  \ {<<v, v>> : v \in ProposalStatus}

\* C7: every change of a stored proposal's status is a transition of the
\* lifecycle table.
C7_StatusChangesFollowTable ==
  [][(proposal.exists /\ proposal'.status # proposal.status) =>
       <<proposal.status, proposal'.status>> \in TransitionTable]_vars

\* C8: the arbiter recommended for a disputed proposal has a family different
\* from that of every reviewer whose vote formed the dispute, when the
\* configured candidates allow it.
C8_ArbiterDiffersFromAllReviewers ==
  (/\ out.cmd = "next"
   /\ out.action = "invoke_arbiter"
   /\ out.outcome = "disputed"
   /\ \E i \in 1..Len(config.arbiters) : \A j \in 1..Len(reviews) :
        config.family[config.arbiters[i]] # config.family[reviews[j].agent]) =>
    \A j \in 1..Len(reviews) :
      config.family[out.agent] # config.family[reviews[j].agent]

\* C10: an outcome computed after a revision is the outcome of the votes
\* recorded since that revision.
C10_ConsensusFromCurrentIteration ==
  (out.cmd \in {"add-review", "next"} /\ out.ok /\ proposal.exists) =>
    \E override \in ConsensusMode \cup {Null} :
      out.outcome =
        evaluateConsensus(SubSeq(reviews, stale + 1, Len(reviews)),
                          config.consensusMode, config.requireUnanimous,
                          override).outcome

\* C23: a stored proposal becomes implemented only from approved.
C23_ImplementedOnlyFromApproved ==
  [][(proposal.exists /\ proposal.status # "implemented"
        /\ proposal'.status = "implemented") =>
       proposal.status = "approved"]_vars

\* C25: computing the next directive changes nothing: status, iterations,
\* arbiter and the recorded reviews are after the call what they were before.
C25_NextIsPureRead ==
  [][out'.cmd = "next" =>
       /\ proposal' = proposal
       /\ reviews' = reviews
       /\ decision' = decision]_vars

C25_Witness ==
  /\ out.cmd = "next"
  /\ out.ok
  /\ out.action = "invoke_arbiter"
  /\ out.agent \in AgentName
  /\ proposal.status = "disputed"
  /\ proposal.arbiter = Null
  /\ Len(reviews) = 2

\* C26: two consecutive next calls with nothing in between report the same
\* action, agent and instructions, in every status.
C26_NextIsIdempotent ==
  [][(out.cmd = "next" /\ out'.cmd = "next") =>
       /\ out'.ok = out.ok
       /\ out'.action = out.action
       /\ out'.agent = out.agent
       /\ out'.instructions = out.instructions]_vars

C26_Witness ==
  /\ out.cmd = "next"
  /\ out.again
  /\ out.action = "invoke_arbiter"
  /\ out.agent \in AgentName
  /\ out.instructions.agent = out.agent

\* C27: a review list handed to the evaluator never holds two votes by the
\* same agent for the same iteration of the proposal.
C27_OneVotePerAgentPerIteration ==
  (out.cmd \in {"add-review", "next"} /\ out.ok /\ proposal.exists) =>
    \A i, j \in 1..Len(reviews) :
      (i < j /\ reviews[i].agent = reviews[j].agent) =>
        (i <= stale /\ stale < j)

----------------------------------------------------------------------------
(* Properties of the configuration *)

\* C29: with the planner or the reviewer list missing or empty, loading the
\* configuration fails, so that nothing runs under it.
C29_MissingRolesAreFatal ==
  (/\ loadResult # <<>>
   /\ \/ loadInput.planner \in {Null, Empty}
      \/ ~loadInput.reviewers.present
      \/ loadInput.reviewers.list = <<>>) =>
    ~loadResult[1].ok

----------------------------------------------------------------------------
(* Further properties of arbiter selection *)

\* C30: under round-robin and least-used the selected arbiter's count of
\* prior arbitrations is no greater than that of any eligible candidate.
C30_LeastUsedIsMinimal ==
  (/\ arbResult # <<>>
   /\ arbInput.strategy \in {"round-robin", "least-used"}
   /\ \E i \in 1..Len(arbInput.arbiters) :
        arbInput.family[arbInput.arbiters[i]]
          # arbInput.family[arbInput.lastReviewer]) =>
    \A i \in 1..Len(arbInput.arbiters) :
      arbInput.family[arbInput.arbiters[i]]
          # arbInput.family[arbInput.lastReviewer] =>
        arbInput.arbitrations[arbResult[1]]
          <= arbInput.arbitrations[arbInput.arbiters[i]]

C30_Witness ==
  /\ arbResult # <<>>
  /\ arbInput.strategy = "round-robin"
  /\ Len(arbInput.arbiters) = 2
  /\ \A i \in 1..2 : arbInput.family[arbInput.arbiters[i]]
                       # arbInput.family[arbInput.lastReviewer]
  /\ arbInput.arbitrations[arbInput.arbiters[1]] = 1
  /\ arbInput.arbitrations[arbInput.arbiters[2]] = 0
  /\ arbResult[1] = arbInput.arbiters[2]

----------------------------------------------------------------------------
(* Expertise matching: matchExpertise and matchExpertiseAndAssignAgents *)

\* Profiles of one configuration (the checked range of config.expertise).
MaxProfiles == 2

\* A string as the sequence of its characters.
UpperCase == <<"A", "B", "C", "D", "E", "F", "G", "H", "I", "J", "K", "L", "M", "N", "O", "P", "Q", "R", "S", "T", "U", "V", "W", "X", "Y", "Z">>
LowerCase == <<"a", "b", "c", "d", "e", "f", "g", "h", "i", "j", "k", "l", "m", "n", "o", "p", "q", "r", "s", "t", "u", "v", "w", "x", "y", "z">>

toLowerChar(c) ==
  IF \E i \in 1..Len(UpperCase) : UpperCase[i] = c
  THEN LowerCase[CHOOSE i \in 1..Len(UpperCase) : UpperCase[i] = c]
  ELSE c

\* String.prototype.toLowerCase
toLowerCase(str) == [i \in 1..Len(str) |-> toLowerChar(str[i])]

\* String.prototype.includes
includes(str, search) ==
  \E k \in 0..(Len(str) - Len(search)) :
    \A i \in 1..Len(search) : str[k + i] = search[i]

\* Task texts
TaskJwt == <<"A", "d", "d", " ", "J", "W", "T", " ", "A", "u", "t", "h", "e", "n", "t", "i", "c", "a", "t", "i", "o", "n">>
TaskSql == <<"F", "i", "x", " ", "S", "Q", "L", " ", "q", "u", "e", "r", "y">>
TaskPlain == <<"U", "p", "d", "a", "t", "e", " ", "f", "i", "l", "e">>
Tasks == {TaskJwt, TaskSql, TaskPlain}

\* Keyword lists of a profile
KwAuth == <<"a", "u", "t", "h">>
KwJwt == <<"j", "w", "t">>
KwSql == <<"S", "Q", "L">>
KeywordLists == {<<>>, <<KwAuth, KwJwt>>, <<KwSql>>}

\* A path as its directories and the extension of its last segment; the
\* globs '**/<dir>/**' and '**/*.<ext>'.
FileAuth == [dirs |-> <<"src", "auth">>, ext |-> "ts"]
FileSql == [dirs |-> <<"db">>, ext |-> "sql"]
FileLists == {<<>>, <<FileAuth, FileSql>>}

GlobDir(d) == [kind |-> "dir", arg |-> d]
GlobExt(e) == [kind |-> "ext", arg |-> e]
PatternLists == {<<>>, <<GlobDir("auth")>>, <<GlobExt("sql"), GlobDir("auth")>>}

\* micromatch([file], pattern).length > 0
micromatch(file, pattern) ==
  IF pattern.kind = "dir"
  THEN \E i \in 1..Len(file.dirs) : file.dirs[i] = pattern.arg
  ELSE file.ext = pattern.arg

ExpertiseNames == {"security", "database", "general"}

ExpertiseProfile ==
  [name : ExpertiseNames, keywords : KeywordLists,
   filePatterns : PatternLists]

\* Object.values(config.expertise): the profiles in declaration order, one
\* per key.
ExpertiseConfigs ==
  {ps \in SeqUpTo(ExpertiseProfile, MaxProfiles) :
     \A i, j \in 1..Len(ps) : i # j => ps[i].name # ps[j].name}

ReviewerLists == {<<"codex">>, <<"gemini", "codex", "claude">>}

\* the weight of a keyword hit; a file-pattern hit counts once
KeywordWeight == 2

ExpertiseMatch(name, score, kws, pats) ==
  [expertise |-> name, score |-> score, matchedKeywords |-> kws,
   matchedFilePatterns |-> pats]

matchExpertise_unweighted(task, files, expertise) ==
  LET taskLower == toLowerCase(task)
      matchedKeywords ==
        SelectSeq(expertise.keywords,
                  LAMBDA kw : includes(taskLower, toLowerCase(kw)))
      matchedFilePatterns ==
        IF Len(files) > 0 /\ Len(expertise.filePatterns) > 0
        THEN SelectSeq(expertise.filePatterns,
                       LAMBDA pat : \E i \in 1..Len(files) :
                                      micromatch(files[i], pat))
        ELSE <<>>
  IN ExpertiseMatch(expertise.name,
                    Len(matchedKeywords) + Len(matchedFilePatterns),
                    matchedKeywords, matchedFilePatterns)

\* matchExpertise(task, files, expertise)
matchExpertise(task, files, expertise) ==
  LET taskLower == toLowerCase(task)
      matchedKeywords ==
        SelectSeq(expertise.keywords,
                  LAMBDA kw : includes(taskLower, toLowerCase(kw)))
      matchedFilePatterns ==
        IF Len(files) > 0 /\ Len(expertise.filePatterns) > 0
        THEN SelectSeq(expertise.filePatterns,
                       LAMBDA pat : \E i \in 1..Len(files) :
                                      micromatch(files[i], pat))
        ELSE <<>>
  IN ExpertiseMatch(expertise.name,
                    Len(matchedKeywords) * KeywordWeight
                      + Len(matchedFilePatterns),
                    matchedKeywords, matchedFilePatterns)

\* One step of the stable sort by (a, b) => b.score - a.score: m goes behind
\* every element that does not score less.
insertMatch_beforeEqual(sorted, m) ==
  LET k == Cardinality({i \in 1..Len(sorted) : sorted[i].score > m.score})
  IN SubSeq(sorted, 1, k) \o <<m>> \o SubSeq(sorted, k + 1, Len(sorted))

insertMatch(sorted, m) ==
  LET k == Cardinality({i \in 1..Len(sorted) : sorted[i].score >= m.score})
  IN SubSeq(sorted, 1, k) \o <<m>> \o SubSeq(sorted, k + 1, Len(sorted))

RECURSIVE sortMatches(_)
\* Array.prototype.sort((a, b) => b.score - a.score)
sortMatches(ms) ==
  IF ms = <<>> THEN <<>>
  ELSE insertMatch(sortMatches(SubSeq(ms, 1, Len(ms) - 1)), ms[Len(ms)])

\* .map(matchExpertise).filter(score > 0).sort(...), and the 'general' match
\* pushed when nothing is left
rankMatches(task, files, expertise) ==
  LET scored == [i \in 1..Len(expertise) |->
                   matchExpertise(task, files, expertise[i])]
      ranked == sortMatches(SelectSeq(scored, LAMBDA m : m.score > 0))
  IN IF ranked = <<>>
     THEN <<ExpertiseMatch("general", 0, <<>>, <<>>)>>
     ELSE ranked

\* config.expertise[name]: <<profile>>, or <<>> for undefined
lookupExpertise(expertise, name) ==
  SelectSeq(expertise, LAMBDA e : e.name = name)

\* matches[Math.min(index, matches.length - 1)], counted from 1
reviewerMatchIndex_top(index, n) == IF index <= n THEN index ELSE 1

reviewerMatchIndex(index, n) == IF index <= n THEN index ELSE n

AgentAssignment(model, expertise) == [model |-> model, expertise |-> expertise]

\* matchExpertiseAndAssignAgents(task, files, config): threw when
\* createAssignment reads the name of an undefined top expertise.
matchExpertiseAndAssignAgents(task, files, expertise, reviewerModels) ==
  LET matches == rankMatches(task, files, expertise)
      topExpertiseName == matches[1].expertise
      top == lookupExpertise(expertise, topExpertiseName)
      topExpertise == IF top # <<>> THEN top
                      ELSE lookupExpertise(expertise, "general")
      profileFor(i) ==
        LET m == matches[reviewerMatchIndex(i, Len(matches))]
            e == lookupExpertise(expertise, m.expertise)
        IN IF e # <<>> THEN e[1] ELSE topExpertise[1]
  IN IF topExpertise = <<>>
     THEN [threw |-> TRUE, matches |-> <<>>, topExpertise |-> Null,
           recommendedReviewers |-> <<>>]
     ELSE [threw |-> FALSE, matches |-> matches,
           topExpertise |-> topExpertiseName,
           recommendedReviewers |->
             [i \in 1..Len(reviewerModels) |->
                AgentAssignment(reviewerModels[i], profileFor(i).name)]]

InitMatch ==
  /\ IdleMachine
  /\ IdleEval
  /\ IdleCmd
  /\ IdleArb
  /\ IdlePool
  /\ IdleLoad
  /\ IdleTrace
  /\ IdleRace
  /\ matchInput \in [task : Tasks, files : FileLists,
                     expertise : ExpertiseConfigs,
                     reviewers : ReviewerLists]
  /\ matchResult = <<>>

\* One call of matchExpertiseAndAssignAgents, with the matchExpertise result
\* of every profile kept beside it.
MatchExpertise ==
  /\ matchResult = <<>>
  /\ matchResult' =
       <<[scored |-> [i \in 1..Len(matchInput.expertise) |->
                        matchExpertise(matchInput.task, matchInput.files,
                                       matchInput.expertise[i])],
          assigned |-> matchExpertiseAndAssignAgents(
                         matchInput.task, matchInput.files,
                         matchInput.expertise, matchInput.reviewers)]>>
  /\ UNCHANGED <<matchInput, machineVars, evalVars, cmdVars, arbVars,
                 poolVars, loadVars, traceVars, raceVars>>

MatchNext == MatchExpertise

SpecMatch == InitMatch /\ [][MatchNext]_vars

----------------------------------------------------------------------------
(* Properties of expertise matching *)

\* kw occurs in text when case is ignored
OccursIn(kw, text) ==
  \E k \in 0..(Len(text) - Len(kw)) :
    \A i \in 1..Len(kw) : toLowerChar(text[k + i]) = toLowerChar(kw[i])

KeywordHits(e) ==
  Cardinality({k \in 1..Len(e.keywords) :
                 OccursIn(e.keywords[k], matchInput.task)})

PatternHits(e) ==
  Cardinality({j \in 1..Len(e.filePatterns) :
                 \E f \in 1..Len(matchInput.files) :
                   micromatch(matchInput.files[f], e.filePatterns[j])})

\* C32: the score of a profile is twice the number of its keywords that
\* occur in the task text, case ignored, plus the number of its file
\* patterns that match some listed file; keywords "auth" and "jwt" score 4
\* on "Add JWT Authentication" when no file pattern matches.
C32_ScoreIsWeightedHits ==
  matchResult # <<>> =>
    \A i \in 1..Len(matchInput.expertise) :
      LET e == matchInput.expertise[i]
          m == matchResult[1].scored[i]
      IN /\ m.score = 2 * KeywordHits(e) + PatternHits(e)
         /\ (/\ matchInput.task = TaskJwt
             /\ e.keywords = <<KwAuth, KwJwt>>
             /\ PatternHits(e) = 0) => m.score = 4

C32_Witness ==
  /\ matchResult # <<>>
  /\ matchInput.task = TaskJwt
  /\ \E i \in 1..Len(matchInput.expertise) :
       /\ matchInput.expertise[i].keywords = <<KwAuth, KwJwt>>
       /\ matchResult[1].scored[i].matchedFilePatterns = <<>>
       /\ matchResult[1].scored[i].score = 4
  /\ \E i \in 1..Len(matchInput.expertise) :
       /\ Len(matchResult[1].scored[i].matchedFilePatterns) = 2
       /\ matchResult[1].scored[i].score = 6

Positive == {i \in 1..Len(matchInput.expertise) :
               matchResult[1].scored[i].score > 0}

DeclIndex(name) ==
  CHOOSE i \in 1..Len(matchInput.expertise) :
    matchInput.expertise[i].name = name

\* the ranked output lists exactly the profiles with a positive score, each
\* once and with its score
RankedArePositive(ms) ==
  /\ Len(ms) = Cardinality(Positive)
  /\ {ms[k].expertise : k \in 1..Len(ms)}
       = {matchInput.expertise[i].name : i \in Positive}
  /\ \A k \in 1..Len(ms) :
       /\ ms[k].score > 0
       /\ ms[k] = matchResult[1].scored[DeclIndex(ms[k].expertise)]

\* scores do not increase along the output, equal scores keep the
\* declaration order
RankedInOrder(ms) ==
  \A k, l \in 1..Len(ms) :
    k < l =>
      \/ ms[k].score > ms[l].score
      \/ /\ ms[k].score = ms[l].score
         /\ DeclIndex(ms[k].expertise) < DeclIndex(ms[l].expertise)

\* C33 as stated: the ranked output contains exactly the profiles with
\* score > 0, in non-increasing score order, ties in declaration order.
C33_RankedExactlyPositive ==
  (matchResult # <<>> /\ ~matchResult[1].assigned.threw) =>
    /\ RankedArePositive(matchResult[1].assigned.matches)
    /\ RankedInOrder(matchResult[1].assigned.matches)

\* C33 amended: when some profile scores above 0 the ranked output contains
\* exactly the profiles with score > 0, in non-increasing score order, ties
\* in declaration order; when none does it is the single match 'general'
\* with score 0.
C33_RankedPositiveOrGeneral ==
  (matchResult # <<>> /\ ~matchResult[1].assigned.threw) =>
    IF Positive # {}
    THEN /\ RankedArePositive(matchResult[1].assigned.matches)
         /\ RankedInOrder(matchResult[1].assigned.matches)
    ELSE matchResult[1].assigned.matches
           = <<ExpertiseMatch("general", 0, <<>>, <<>>)>>

C33_Witness ==
  /\ matchResult # <<>>
  /\ Len(matchInput.expertise) = 2
  /\ matchResult[1].scored[1].score > 0
  /\ matchResult[1].scored[1].score = matchResult[1].scored[2].score
  /\ Len(matchResult[1].assigned.matches) = 2
  /\ matchResult[1].assigned.matches[1].expertise
       = matchInput.expertise[1].name

\* C34: the i-th configured reviewer is paired with the i-th ranked match,
\* and every reviewer beyond the last match with the last match.
C34_ReviewersPairedInOrder ==
  (matchResult # <<>> /\ ~matchResult[1].assigned.threw) =>
    LET a == matchResult[1].assigned
    IN /\ Len(a.recommendedReviewers) = Len(matchInput.reviewers)
       /\ \A i \in 1..Len(matchInput.reviewers) :
            /\ a.recommendedReviewers[i].model = matchInput.reviewers[i]
            /\ i <= Len(a.matches) =>
                 a.recommendedReviewers[i].expertise = a.matches[i].expertise
            /\ i > Len(a.matches) =>
                 a.recommendedReviewers[i].expertise
                   = a.matches[Len(a.matches)].expertise

C34_Witness ==
  /\ matchResult # <<>>
  /\ ~matchResult[1].assigned.threw
  /\ Len(matchInput.reviewers) = 3
  /\ Len(matchResult[1].assigned.matches) = 2
  /\ matchResult[1].assigned.recommendedReviewers[1].expertise
       = matchResult[1].assigned.matches[1].expertise
  /\ matchResult[1].assigned.recommendedReviewers[3].expertise
       = matchResult[1].assigned.matches[2].expertise

----------------------------------------------------------------------------
(* A fresh actor: every run starts in draft *)

InitFreshActor ==
  /\ InitFresh
  /\ IdleEval
  /\ IdleCmd
  /\ IdleArb
  /\ IdlePool
  /\ IdleLoad
  /\ IdleMatch
  /\ IdleTrace
  /\ IdleRace

SpecFresh == InitFreshActor /\ [][Next]_vars

\* The same actor with the events sent to it kept in order, followed for
\* MaxTrace events.
MaxTrace == 3

\* The events of ProposalEvent
TraceEvents ==
  {ProposalEvent("CREATE", Null, Null, FALSE),
   ProposalEvent("REVISED", Null, Null, FALSE),
   ProposalEvent("IMPLEMENTATION_COMPLETE", Null, Null, FALSE)}
  \cup {ProposalEvent("REVIEW_RECEIVED", a, v, FALSE) :
          a \in AgentName, v \in Vote}
  \cup {ProposalEvent("ARBITER_DECISION", Null, v, FALSE) : v \in Vote}
  \cup {ProposalEvent("HUMAN_DECISION", Null, Null, b) : b \in BOOLEAN}

\* actor.send(ev), the k-th send since createActor
TraceSend(ev) ==
  /\ Len(trace) < MaxTrace
  /\ LET s == transition(value, context, ev)
     IN /\ value' = s.value
        /\ context' = s.context
  /\ lastEvent' = [event |-> ev, from |-> value, pre |-> context,
                   signal |-> sendSignal(value, context, ev)]
  /\ trace' = Append(trace, ev)
  /\ UNCHANGED <<evalVars, cmdVars, arbVars, poolVars, loadVars, matchVars,
                 raceVars>>

TraceNext == \E ev \in TraceEvents : TraceSend(ev)

SpecTrace == InitFreshActor /\ [][TraceNext]_vars

\* getNextActionForState(stateValue, context)
getNextActionForState(stateValue, ctx) ==
  CASE stateValue = "draft" -> "create_proposal"
    [] stateValue = "pending_review" -> "request_review"
    [] stateValue = "revision" -> "revise_proposal"
    [] stateValue = "disputed" -> "invoke_arbiter"
    [] stateValue = "escalated" -> "escalate_human"
    [] stateValue = "approved" -> "implement"
    [] stateValue = "implemented" -> "mark_complete"
    [] stateValue = "rejected" -> "escalate_human"
    [] OTHER -> "create_proposal"

----------------------------------------------------------------------------
(* Properties of a fresh actor *)

\* C35: from draft, CREATE, then an APPROVE of one reviewer, then a REJECT of
\* another reviewer end in disputed.
C35_ApproveThenRejectDisputes ==
  \A r1, r2 \in AgentName :
    (/\ r1 # r2
     /\ trace = <<ProposalEvent("CREATE", Null, Null, FALSE),
                  ProposalEvent("REVIEW_RECEIVED", r1, "APPROVE", FALSE),
                  ProposalEvent("REVIEW_RECEIVED", r2, "REJECT", FALSE)>>)
      => value = "disputed"

\* Steps within which every state of the machine can finish
MaxFinishSteps == 3

RECURSIVE CanFinish(_, _, _)
\* some sequence of at most k events leads from <<v, ctx>> to a final state
CanFinish(v, ctx, k) ==
  \/ v \in {"rejected", "implemented"}
  \/ /\ k > 0
     /\ \E ev \in TraceEvents :
          LET s == transition(v, ctx, ev)
          IN /\ s # Snapshot(v, ctx)
             /\ CanFinish(s.value, s.context, k - 1)

\* C36: from every state reachable from draft some finite sequence of events
\* leads to rejected or implemented.
C36_NoDeadEnd == CanFinish(value, context, MaxFinishSteps)

C36_Witness ==
  /\ value = "escalated"
  /\ context.iterations = DefaultMaxIterations + 1
  /\ Handled("REVISED", "revision")
  /\ CanFinish(value, context, 1)

\* C39: in revision the directive is escalate_human exactly when REVISED
\* would lead to escalated (iterations >= maxIterations), and
\* revise_proposal otherwise.
C39_DirectiveAgreesWithEngine ==
  value = "revision" =>
    IF revisedTarget(context) = "escalated"
    THEN getNextActionForState(value, context) = "escalate_human"
    ELSE getNextActionForState(value, context) = "revise_proposal"

----------------------------------------------------------------------------
(* The revision loop at the command layer: every review is a REVISE vote,
   next is asked and every revise_proposal directive is acted on. *)

\* add-review --vote REVISE
LoopAddReview ==
  /\ AddReview
  /\ reviews' # reviews => reviews'[Len(reviews')].vote = "REVISE"

\* corrum run, a reviewer returns REVISE
LoopRunReview ==
  /\ RunReview
  /\ reviews'[Len(reviews')].vote = "REVISE"

LoopCmdNext ==
  \/ Propose
  \/ RunCreate
  \/ LoopAddReview
  \/ LoopRunReview
  \/ NextCmd
  \/ ReviseProposal

\* Reviews keep arriving, next keeps being asked and the planner acts on
\* every directive it is given.
SpecCmdLoop ==
  /\ InitCmd
  /\ [][LoopCmdNext]_vars
  /\ WF_vars(Propose \/ RunCreate)
  /\ WF_vars(LoopAddReview)
  /\ WF_vars(LoopRunReview)
  /\ WF_vars(NextCmd)
  /\ WF_vars(ReviseProposal)

----------------------------------------------------------------------------
(* complete and decide started together on one proposal: two processes on
   the same database, each statement committed on its own. *)

RaceIdle == [complete |-> "idle", decide |-> "idle", outcome |-> Null,
             start |-> [status |-> Null, decision |-> Null]]

DecisionOutcome == {"approved", "rejected", "deferred"}

\* decide: the newStatus of an outcome
decideStatus(outcome) == IF outcome = "deferred" THEN "escalated" ELSE outcome

InitRace ==
  /\ IdleMachine
  /\ IdleEval
  /\ IdleArb
  /\ IdlePool
  /\ IdleLoad
  /\ IdleMatch
  /\ IdleTrace
  /\ config \in CmdConfigs
  /\ proposal = NoProposal
  /\ reviews = <<>>
  /\ decision = "none"
  /\ run = RunIdle
  /\ out = NoOutput
  /\ stale = 0
  /\ pc = RaceIdle

RaceFrame ==
  UNCHANGED <<config, reviews, run, stale, machineVars, evalVars, arbVars,
              poolVars, loadVars, matchVars, traceVars>>

\* the commands before the two are started, one at a time
RacePropose == pc = RaceIdle /\ Propose

RaceEarlierDecide == pc = RaceIdle /\ Decide

\* corrum complete and corrum decide --outcome are started
RaceStart ==
  \E outcome \in DecisionOutcome :
    /\ pc = RaceIdle
    /\ proposal.exists
    /\ pc' = [complete |-> "started", decide |-> "started",
              outcome |-> outcome,
              start |-> [status |-> proposal.status, decision |-> decision]]
    /\ UNCHANGED <<proposal, decision, out>>
    /\ RaceFrame

\* complete: getProposal and the status check
CompleteRead ==
  /\ pc.complete = "started"
  /\ IF proposal.status # "approved"
     THEN /\ pc' = [pc EXCEPT !.complete = "done"]
          /\ out' = Output("complete", FALSE, Null, Null, Null,
                           proposal.status)
     ELSE /\ pc' = [pc EXCEPT !.complete = "checked"]
          /\ UNCHANGED out
  /\ UNCHANGED <<proposal, decision>>
  /\ RaceFrame

\* complete: updateProposal(id, {status: 'implemented'})
CompleteWrite ==
  /\ pc.complete = "checked"
  /\ proposal' = updateProposal(proposal, "implemented")
  /\ out' = Output("complete", TRUE, Null, Null, Null, "implemented")
  /\ pc' = [pc EXCEPT !.complete = "done"]
  /\ UNCHANGED decision
  /\ RaceFrame

\* decide: getProposal and recordDecision
DecideRecord ==
  /\ pc.decide = "started"
  /\ decision' = pc.outcome
  /\ pc' = [pc EXCEPT !.decide = "recorded"]
  /\ UNCHANGED <<proposal, out>>
  /\ RaceFrame

\* decide: updateProposal(id, {status: newStatus})
DecideUpdate ==
  /\ pc.decide = "recorded"
  /\ proposal' = updateProposal(proposal, decideStatus(pc.outcome))
  /\ out' = Output("decide", TRUE, Null, Null, pc.outcome,
                   decideStatus(pc.outcome))
  /\ pc' = [pc EXCEPT !.decide = "done"]
  /\ UNCHANGED decision
  /\ RaceFrame

RaceNext ==
  \/ RacePropose
  \/ RaceEarlierDecide
  \/ RaceStart
  \/ CompleteRead
  \/ CompleteWrite
  \/ DecideRecord
  \/ DecideUpdate

SpecRace == InitRace /\ [][RaceNext]_vars

----------------------------------------------------------------------------
(* Further properties of the commands over the store *)

\* C37: with reviewers voting REVISE and the proposal revised after each
\* round, a revise_proposal directive of next is eventually followed by an
\* escalate_human directive.
C37_RevisionLoopEscalates ==
  (out.cmd = "next" /\ out.action = "revise_proposal")
    ~> (out.cmd = "next" /\ out.action = "escalate_human")

\* C38: once every assigned reviewer of a proposal in pending_review has
\* recorded a review, the directive of next is not request_review.
C38_NoRequestAfterAllReviewed ==
  (/\ out.cmd = "next"
   /\ proposal.exists
   /\ proposal.status = "pending_review"
   /\ \A i \in 1..Len(proposal.reviewers) :
        \E j \in 1..Len(reviews) : reviews[j].agent = proposal.reviewers[i])
    => out.action # "request_review"

\* the store after complete alone, and after decide alone
AfterComplete(st) ==
  IF st.status = "approved" THEN [st EXCEPT !.status = "implemented"] ELSE st

AfterDecide(st, outcome) ==
  [status |-> decideStatus(outcome), decision |-> outcome]

\* C40: whatever complete and decide leave behind when started together is
\* also left behind by running them one after the other in some order; the
\* proposal is never implemented with a recorded decision rejected.
C40_CompleteAndDecideSerializable ==
  (pc.complete = "done" /\ pc.decide = "done") =>
    /\ [status |-> proposal.status, decision |-> decision]
         \in {AfterDecide(AfterComplete(pc.start), pc.outcome),
              AfterComplete(AfterDecide(pc.start, pc.outcome))}
    /\ ~(proposal.status = "implemented" /\ decision = "rejected")

====
